---- MODULE Spec2Model ----
(***************************************************************************)
(* Model of the Google Sheets foreign data wrapper of src/src/lib.rs: the  *)
(* process-wide ExampleFdw instance {base_url, src_rows, src_idx} and the  *)
(* lifecycle calls the host drives on it (init, begin_scan, iter_scan,     *)
(* re_scan, end_scan and the five write-path calls).                       *)
(*                                                                         *)
(* JSON numbers are kept as integers counting tenths (1.0 is 10, -1.5 is   *)
(* -15), so that the f64 -> i64 cast of iter_scan is a real truncation.    *)
(* All numbers of the model are far inside the i64 range and exactly       *)
(* representable as f64; saturation and rounding of huge values are not    *)
(* modelled.                                                               *)
(***************************************************************************)
EXTENDS Integers, Sequences, FiniteSets, TLC

VARIABLES base_url, src_rows, src_idx, call, scan

vars == <<base_url, src_rows, src_idx, call, scan>>

(* ------------------------------ bounds --------------------------------- *)

\* longest row array a response carries
MaxRows == 2
\* most target columns the host asks for in one scan
MaxCols == 2

(* ------------------------------ constants ------------------------------ *)

\* build_with_max_retries(3)
MaxRetries == 3

(* ------------------------- Option<T> of Rust --------------------------- *)

None == [some |-> FALSE]
Some(x) == [some |-> TRUE, v |-> x]

(* --------------------------- serde_json::Value ------------------------- *)

JNull == [t |-> "null"]
JBool(b) == [t |-> "bool", b |-> b]
JNum(tenths) == [t |-> "number", n |-> tenths]
JStr(s) == [t |-> "string", s |-> s]
JArr(a) == [t |-> "array", a |-> a]
JObj(o) == [t |-> "object", o |-> o]

as_f64(j) == IF j.t = "number" THEN Some(j.n) ELSE None
as_str(j) == IF j.t = "string" THEN Some(j.s) ELSE None
as_array(j) == IF j.t = "array" THEN Some(j.a) ELSE None

\* one reference token of a JSON pointer: its text, and the array index the
\* text parses to (-1 when it is no index)
Key(k) == [key |-> k, idx |-> -1]
Index(i) == [key |-> ToString(i), idx |-> i]

\* Value::pointer, one token: an object is looked up by key, an array by
\* index, anything else has no members
PointerStep(j, tok) ==
    IF j.t = "object"
    THEN IF tok.key \in DOMAIN j.o THEN Some(j.o[tok.key]) ELSE None
    ELSE IF j.t = "array"
         THEN IF tok.idx >= 0 /\ tok.idx < Len(j.a) THEN Some(j.a[tok.idx + 1]) ELSE None
         ELSE None

RECURSIVE pointer(_, _)
pointer(j, path) ==
    IF path = <<>> THEN Some(j)
    ELSE LET step == PointerStep(j, Head(path))
         IN IF step.some THEN pointer(step.v, Tail(path)) ELSE None

(* ------------------------------ host types ----------------------------- *)

\* TypeOid of the host: the two the wrapper converts, and one it does not
TypeOids == {"I64", "String", "Bool"}

CellI64(i) == [t |-> "I64", i |-> i]
CellString(s) == [t |-> "String", s |-> s]

\* a faulty cast: rounds down instead of toward zero
F64AsI64Floor(tenths) == tenths \div 10

\* (v as i64) on an f64: the fractional part is dropped, toward zero
F64AsI64(tenths) == IF tenths >= 0 THEN tenths \div 10 ELSE -((-tenths) \div 10)

(* ------------------------------- inputs -------------------------------- *)

\* source rows as the service sends them, after the example in the comment
\* of iter_scan: cells with a number, a string, a boolean, a null value or no
\* value field, a null in place of a cell, and rows of different lengths
RowNumStr ==
    JObj([c |-> JArr(<< JObj([v |-> JNum(10), f |-> JStr("1")]),
                        JObj([v |-> JStr("Erlich Bachman")]),
                        JObj([v |-> JNull]) >>)])

RowShort ==
    JObj([c |-> JArr(<< JObj([v |-> JNum(27)]),
                        JObj([f |-> JStr("3")]) >>)])

RowNegBool ==
    JObj([c |-> JArr(<< JObj([v |-> JNum(-15)]),
                        JObj([v |-> JBool(TRUE)]),
                        JNull >>)])

RowSamples == {RowNumStr, RowShort, RowNegBool}

\* the rows the responses of the lifecycle are made of
FetchedSamples == {RowNumStr, RowShort}

\* the 1-based column numbers of the host: the source positions the samples have
ColNums == 1 .. 3

RowSets == UNION { [1 .. n -> RowSamples] : n \in 0 .. MaxRows }

FetchedRowSets == UNION { [1 .. n -> FetchedSamples] : n \in 0 .. MaxRows }

Columns == [num : ColNums, type_oid : TypeOids]

tgt_col_name(col) == "col" \o ToString(col.num)

\* every column list the host can ask for, in ordinal order
ColumnLists ==
    { cols \in UNION { [1 .. n -> Columns] : n \in 1 .. MaxCols } :
        \A i \in 1 .. Len(cols) - 1 : cols[i].num < cols[i + 1].num }

\* the column lists of the foreign tables the lifecycle is driven with: one
\* with supported types only, one with a column of another type
TableColumns ==
    { << [num |-> 1, type_oid |-> "I64"], [num |-> 2, type_oid |-> "String"] >>,
      << [num |-> 1, type_oid |-> "I64"], [num |-> 2, type_oid |-> "Bool"] >> }

\* foreign server options, read by init
ServerOptions == { [o \in {} |-> ""], [base_url |-> "http://localhost:8080"] }

\* foreign table options, read by begin_scan
TableOptions ==
    { [spread_sheet_id |-> "abc123"],
      [spread_sheet_id |-> "abc123", sheet_id |-> "0"],
      [sheet_id |-> "0"] }

\* the service account key the host hands over, and what the token authority
\* answers to a well-formed key
SaKeys == {"malformed", "valid"}
AuthorityAnswers == {"rejected", "no_token", "ya29.token"}

\* a response body is a text: characters, then the rest of the text as one
\* piece, which is either a JSON document (Doc) or text that is no JSON
Ch(c) == [t |-> "char", c |-> c]
Doc(j) == [t |-> "json", doc |-> j]
NotJson == [t |-> "text"]

\* the anti-hijacking line the service puts before its JSON: )]}' and a newline
Sentinel == << Ch(")"), Ch("]"), Ch("}"), Ch("'"), Ch("\n") >>

Table(rows) == JObj([table |-> JObj([cols |-> JArr(<<>>), rows |-> rows])])

WellFormedBodies == { Sentinel \o << Doc(Table(JArr(rows))) >> : rows \in FetchedRowSets }

\* bodies without the sentinel (the JSON alone, the sentinel cut short, no
\* text at all), and bodies with it and no row array behind it
OtherBodies ==
    { << Doc(Table(JArr(<< RowNumStr >>))) >>,
      SubSeq(Sentinel, 1, 4) \o << Doc(Table(JArr(<< RowNumStr >>))) >>,
      <<>>,
      Sentinel \o << NotJson >>,
      Sentinel \o << Doc(JObj([status |-> JStr("error")])) >>,
      Sentinel \o << Doc(Table(JNull)) >> }

Bodies == WellFormedBodies \cup OtherBodies

\* the bodies of a server that is asked again and again: short ones, to
\* keep the retries apart from the parsing
RetriedBodies ==
    { Sentinel \o << Doc(Table(JArr(rows))) >> : rows \in {<<>>, << RowNumStr >>, << RowShort >>} }
    \cup { <<>> }

\* what one HTTP request comes to: no response (a network error) or the
\* status of the response
NetworkError == [kind |-> "transport"]
Status(code) == [kind |-> "status", status |-> code]

\* failures the retry middleware takes for transient, and the outcomes it
\* takes for final
TransientOutcomes == {NetworkError, Status(503), Status(429)}
FinalOutcomes == {Status(200), Status(404)}

\* what the server does to the successive requests of one fetch; the last
\* outcome of a script is repeated for as long as the client keeps asking.
\* A server that fails some requests in a transient way and then answers:
ServerScripts ==
    { [i \in 1 .. k + 1 |-> IF i <= k THEN t ELSE f] :
        k \in 0 .. MaxRetries + 1, t \in TransientOutcomes, f \in FinalOutcomes }

\* a server that does the same to every request
SteadyServers == { << NetworkError >>, << Status(404) >>, << Status(200) >> }

\* what the HTTP client hands back once its retries are over
FetchOutcomes(bodies) ==
    { NetworkError, Status(404), Status(429), Status(503) }
    \cup { [kind |-> "status", status |-> 200, body |-> b] : b \in bodies }

(* --------------------- Result<T, FdwError> of Rust --------------------- *)

Ok(x) == [ok |-> TRUE, panic |-> FALSE, v |-> x]
Err(e) == [ok |-> FALSE, panic |-> FALSE, e |-> e]
\* a panic of the guest: the call does not return
Panic(e) == [ok |-> FALSE, panic |-> TRUE, e |-> e]

(* ------------------------------ the state ------------------------------ *)

\* call: the lifecycle call the host made last and what it got back
\*   op      the call
\*   result  "Ok" | "Err" | "Panic" (FdwResult), "Some" | "None" | "Err" (iter_scan)
\*   err     the error string of an Err
\*   cols    the target columns of the call's context (iter_scan)
\*   row     the cells pushed to the host's row during the call (iter_scan)
\*   idx0    src_idx when the call began
\* and, of a begin_scan, what it went through (seen):
\*   auth      how the token exchange ended, "" when none was made
\*   exchanges the number of token exchanges made
\*   stages    the stages the call entered, in order
\*   opts      the table options the call read, when it read them
\*   url       the request URL the call built, "" when it built none
\*   script    what the server did to the requests of the call
\*   requests  the number of HTTP requests sent
\*   body      the response body the call received, when it got one
NotSeen ==
    [auth |-> "", exchanges |-> 0, stages |-> <<>>, opts |-> None, url |-> "",
     script |-> <<>>, requests |-> 0, body |-> None]

Called(op, result, err) ==
    [op |-> op, result |-> result, err |-> err, cols |-> <<>>, row |-> <<>>,
     idx0 |-> src_idx,
     auth |-> NotSeen.auth, exchanges |-> NotSeen.exchanges, stages |-> NotSeen.stages,
     opts |-> NotSeen.opts, url |-> NotSeen.url, script |-> NotSeen.script,
     requests |-> NotSeen.requests, body |-> NotSeen.body]

BegunScan(result, err, seen) ==
    [Called("begin_scan", result, err)
        EXCEPT !.auth = seen.auth, !.exchanges = seen.exchanges, !.stages = seen.stages,
               !.opts = seen.opts, !.url = seen.url, !.script = seen.script,
               !.requests = seen.requests, !.body = seen.body]

\* scan: the host's view of the scan in progress
\*   active    a begin_scan succeeded and neither end_scan nor init followed
\*   fetched   the number of rows that begin_scan fetched
\*   returned  the number of iter_scan calls since then that returned a row
\*   supported every iter_scan call since then had columns of supported types only
\*   failed    a begin_scan failed and none has succeeded since
\*   ended     end_scan ran or an iter_scan returned "no more rows", and no
\*             begin_scan has succeeded since
NoScan ==
    [active |-> FALSE, fetched |-> 0, returned |-> 0, supported |-> TRUE,
     failed |-> FALSE, ended |-> FALSE]

Begun(rows) == [NoScan EXCEPT !.active = TRUE, !.fetched = Len(rows)]

(* ------------------------- option lookups of the host ------------------ *)

get(opts, key) == IF key \in DOMAIN opts THEN Some(opts[key]) ELSE None

require(opts, key) ==
    IF key \in DOMAIN opts THEN Ok(opts[key])
    ELSE Err("required option '" \o key \o "' is not specified")

require_or(opts, key, default) == IF key \in DOMAIN opts THEN opts[key] ELSE default

(* --------------------------------- init -------------------------------- *)

init_instance == [base_url |-> "", src_rows |-> <<>>, src_idx |-> 0]

InitBaseUrl(opts) == require_or(opts, "base_url", "https://docs.google.com/spreadsheets/d")

init ==
    \E opts \in ServerOptions :
        /\ base_url' = InitBaseUrl(opts)
        /\ src_rows' = init_instance.src_rows
        /\ src_idx' = init_instance.src_idx
        /\ call' = Called("init", "Ok", "")
        /\ scan' = NoScan

(* ------------------------------ begin_scan ----------------------------- *)

\* a faulty acquisition: a token container without a token string is taken
\* for an empty token
get_oauth2_token_or_empty(sa_key, answer) ==
    IF sa_key = "malformed" THEN Err("invalid service account key")
    ELSE IF answer = "rejected" THEN Err("token exchange failed")
    ELSE Ok([token |-> IF answer = "no_token" THEN Some("") ELSE Some(answer)])

\* the key is parsed, the authenticator built and the token asked for once;
\* the token container may come back without a token string
get_oauth2_token(sa_key, answer) ==
    IF sa_key = "malformed" THEN Err("invalid service account key")
    ELSE IF answer = "rejected" THEN Err("token exchange failed")
    ELSE Ok([token |-> IF answer = "no_token" THEN None ELSE Some(answer)])

\* a faulty URL: the one built first in begin_scan, which leaves the sheet out
RequestUrlWithoutGid(base, spread_sheet_id, sheet_id) ==
    base \o "/" \o spread_sheet_id \o "/gviz/tq?tqx=out:json"

RequestUrl(base, spread_sheet_id, sheet_id) ==
    IF sheet_id.some
    THEN base \o "/" \o spread_sheet_id \o "/gviz/tq?gid=" \o sheet_id.v \o "&tqx=out:json"
    ELSE base \o "/" \o spread_sheet_id \o "/gviz/tq?tqx=out:json"

\* the default strategy of RetryTransientMiddleware: network errors, 5xx,
\* 408 and 429 are transient; the other 4xx are fatal
IsTransient(outcome) ==
    \/ outcome.kind = "transport"
    \/ outcome.kind = "status" /\ (outcome.status >= 500 \/ outcome.status \in {408, 429})

\* the outcome of the request sent after n_past_retries retries
Attempt(script, n_past_retries) ==
    script[IF n_past_retries + 1 <= Len(script) THEN n_past_retries + 1 ELSE Len(script)]

\* a faulty middleware: every failure is retried, the fatal ones too
RECURSIVE SendWithRetryOnAnyFailure(_, _)
SendWithRetryOnAnyFailure(script, n_past_retries) ==
    LET outcome == Attempt(script, n_past_retries)
    IN IF (outcome.kind = "transport" \/ outcome.status >= 400)
             /\ n_past_retries < MaxRetries
       THEN SendWithRetryOnAnyFailure(script, n_past_retries + 1)
       ELSE [last |-> outcome, requests |-> n_past_retries + 1]

\* client.get(&url).send() behind the retry middleware: the request is sent
\* again after a transient failure, MaxRetries times at most; what the last
\* request came to, and the number of requests sent
RECURSIVE SendWithRetry(_, _)
SendWithRetry(script, n_past_retries) ==
    LET outcome == Attempt(script, n_past_retries)
    IN IF IsTransient(outcome) /\ n_past_retries < MaxRetries
       THEN SendWithRetry(script, n_past_retries + 1)
       ELSE [last |-> outcome, requests |-> n_past_retries + 1]

\* what the client hands back for the last request: the failure, or the
\* response with one of the bodies
Delivered(last, bodies) ==
    { o \in FetchOutcomes(bodies) :
        /\ o.kind = last.kind
        /\ o.kind = "status" => o.status = last.status }

\* send() behind the retry middleware, error_for_status() and text()
FetchBody(fetched) ==
    IF fetched.kind = "transport" THEN Err("error sending request")
    ELSE IF fetched.status >= 400
         THEN Err("HTTP status error (" \o ToString(fetched.status) \o ")")
         ELSE Ok(fetched.body)

\* a faulty strip: a text without the prefix is passed on as it is
strip_prefix_if_present(text, prefix) ==
    IF Len(text) >= Len(prefix) /\ SubSeq(text, 1, Len(prefix)) = prefix
    THEN Some(SubSeq(text, Len(prefix) + 1, Len(text)))
    ELSE Some(text)

strip_prefix(text, prefix) ==
    IF Len(text) >= Len(prefix) /\ SubSeq(text, 1, Len(prefix)) = prefix
    THEN Some(SubSeq(text, Len(prefix) + 1, Len(text)))
    ELSE None

\* serde_json::from_str: the whole text has to be one JSON document
from_str(text) ==
    IF Len(text) = 1 /\ text[1].t = "json" THEN Ok(text[1].doc)
    ELSE Err("expected value at line 1 column 1")

\* the rows of a response body: Ok(rows), an error, or a panic of the unwrap
\* when table.rows is there and is no array
ParseRows(body) ==
    LET stripped == strip_prefix(body, Sentinel)
    IN IF ~stripped.some THEN Err("invalid response")
       ELSE LET resp_json == from_str(stripped.v)
            IN IF ~resp_json.ok THEN resp_json
               ELSE LET rows == pointer(resp_json.v, << Key("table"), Key("rows") >>)
                    IN IF ~rows.some THEN Err("cannot get rows from response")
                       ELSE IF ~as_array(rows.v).some
                            THEN Panic("called Option::unwrap() on a None value")
                            ELSE Ok(as_array(rows.v).v)

\* a faulty early return: the rows of the scan before are dropped
BeginScanFailsAndClears(res, seen) ==
    /\ src_rows' = <<>>
    /\ call' = BegunScan(IF res.panic THEN "Panic" ELSE "Err", res.e, seen)
    /\ scan' = [scan EXCEPT !.failed = TRUE]
    /\ UNCHANGED <<base_url, src_idx>>

\* begin_scan returns early: nothing of the instance is written
BeginScanFails(res, seen) ==
    /\ call' = BegunScan(IF res.panic THEN "Panic" ELSE "Err", res.e, seen)
    /\ scan' = [scan EXCEPT !.failed = TRUE]
    /\ UNCHANGED <<base_url, src_rows, src_idx>>

\* begin_scan stores the rows; it writes no other field of the instance
BeginScanStores(rows, seen) ==
    /\ src_rows' = rows
    /\ call' = BegunScan("Ok", "", seen)
    /\ scan' = Begun(rows)
    /\ UNCHANGED <<base_url, src_idx>>

\* how the token exchange of get_oauth2_token ended, and how many were made
AuthEnded(sa_key, answer) ==
    IF sa_key = "malformed" THEN "malformed key"
    ELSE IF answer = "rejected" THEN "exchange failed"
    ELSE IF answer = "no_token" THEN "no token" ELSE "token"

Exchanges(sa_key) == IF sa_key = "malformed" THEN 0 ELSE 1

\* begin_scan against servers that answer by one of the scripts
BeginScan(scripts, bodies) ==
    \E sa_key \in SaKeys, answer \in AuthorityAnswers :
        LET access_token == get_oauth2_token(sa_key, answer)
            authed == [NotSeen EXCEPT !.auth = AuthEnded(sa_key, answer),
                                      !.exchanges = Exchanges(sa_key),
                                      !.stages = << "auth" >>]
        IN IF ~access_token.ok THEN BeginScanFails(access_token, authed)
           ELSE IF ~access_token.v.token.some
                THEN BeginScanFails(Err("no token found in access token"), authed)
                ELSE \E opts \in TableOptions :
                        LET spread_sheet_id == require(opts, "spread_sheet_id")
                            read == [authed EXCEPT !.opts = Some(opts),
                                                   !.stages = << "auth", "options" >>]
                        IN IF ~spread_sheet_id.ok THEN BeginScanFails(spread_sheet_id, read)
                           ELSE \E script \in scripts :
                                   LET url == RequestUrl(base_url, spread_sheet_id.v,
                                                         get(opts, "sheet_id"))
                                       sent == SendWithRetry(script, 0)
                                       asked == [read EXCEPT
                                                    !.url = url, !.script = script,
                                                    !.requests = sent.requests,
                                                    !.stages = << "auth", "options", "fetch" >>]
                                   IN \E fetched \in Delivered(sent.last, bodies) :
                                         LET body == FetchBody(fetched)
                                         IN IF ~body.ok THEN BeginScanFails(body, asked)
                                            ELSE LET rows == ParseRows(body.v)
                                                     got == [asked EXCEPT
                                                                !.body = Some(body.v),
                                                                !.stages = << "auth", "options",
                                                                              "fetch", "parse" >>]
                                                 IN IF ~rows.ok THEN BeginScanFails(rows, got)
                                                    ELSE BeginScanStores(rows.v, got)

\* begin_scan as the lifecycle drives it, against a server that does the
\* same to every request
begin_scan == BeginScan(SteadyServers, Bodies)

\* begin_scan against a server that fails some requests and then answers
begin_scan_retrying == BeginScan(ServerScripts, RetriedBodies)

(* ------------------------------- iter_scan ----------------------------- *)

SupportedTypes == {"I64", "String"}

\* src_row.pointer("/c/{num - 1}/v")
SourceValue(src_row, tgt_col_num) ==
    pointer(src_row, << Key("c"), Index(tgt_col_num - 1), Key("v") >>)

\* a faulty conversion: a value of another JSON type becomes the type's
\* default value (0, "") instead of no cell
ConvertCellOrDefault(type_oid, src) ==
    IF type_oid = "I64"
    THEN LET v == as_f64(src) IN Some(CellI64(IF v.some THEN F64AsI64(v.v) ELSE 0))
    ELSE LET v == as_str(src) IN Some(CellString(IF v.some THEN v.v ELSE ""))

\* the match on type_oid for the two supported types: a value of another
\* JSON type converts to no cell
ConvertCell(type_oid, src) ==
    IF type_oid = "I64"
    THEN LET v == as_f64(src) IN IF v.some THEN Some(CellI64(F64AsI64(v.v))) ELSE None
    ELSE LET v == as_str(src) IN IF v.some THEN Some(CellString(v.v)) ELSE None

\* a faulty loop: a column without a source value fails the call
RECURSIVE MapColumnsStrict(_, _, _)
MapColumnsStrict(src_row, cols, row) ==
    IF cols = <<>> THEN [row |-> row, err |-> None]
    ELSE LET tgt_col == Head(cols)
             src == SourceValue(src_row, tgt_col.num)
         IN IF src.some
            THEN IF tgt_col.type_oid \in SupportedTypes
                 THEN MapColumnsStrict(src_row, Tail(cols),
                                       Append(row, ConvertCell(tgt_col.type_oid, src.v)))
                 ELSE [row |-> row,
                       err |-> Some("column " \o tgt_col_name(tgt_col)
                                        \o " data type is not supported")]
            ELSE [row |-> row,
                  err |-> Some("column " \o tgt_col_name(tgt_col) \o " has no value")]

\* a faulty loop: a column without a source value gets no cell at all
RECURSIVE MapColumnsSkipsAbsent(_, _, _)
MapColumnsSkipsAbsent(src_row, cols, row) ==
    IF cols = <<>> THEN [row |-> row, err |-> None]
    ELSE LET tgt_col == Head(cols)
             src == SourceValue(src_row, tgt_col.num)
         IN IF src.some
            THEN IF tgt_col.type_oid \in SupportedTypes
                 THEN MapColumnsSkipsAbsent(src_row, Tail(cols),
                                            Append(row, ConvertCell(tgt_col.type_oid, src.v)))
                 ELSE [row |-> row,
                       err |-> Some("column " \o tgt_col_name(tgt_col)
                                        \o " data type is not supported")]
            ELSE MapColumnsSkipsAbsent(src_row, Tail(cols), row)

\* the loop over the target columns, from the columns still to do and the
\* cells pushed so far: the cells pushed when it ends, and the error that
\* ended it early
RECURSIVE MapColumns(_, _, _)
MapColumns(src_row, cols, row) ==
    IF cols = <<>> THEN [row |-> row, err |-> None]
    ELSE LET tgt_col == Head(cols)
             src == SourceValue(src_row, tgt_col.num)
         IN IF src.some
            THEN IF tgt_col.type_oid \in SupportedTypes
                 THEN MapColumns(src_row, Tail(cols),
                                 Append(row, ConvertCell(tgt_col.type_oid, src.v)))
                 ELSE [row |-> row,
                       err |-> Some("column " \o tgt_col_name(tgt_col)
                                        \o " data type is not supported")]
            ELSE MapColumns(src_row, Tail(cols), Append(row, None))

\* what the host has seen of the scan after one more iter_scan
Observed(cols, result) ==
    LET counted ==
            IF scan.active
            THEN [scan EXCEPT !.returned = @ + (IF result = "Some" THEN 1 ELSE 0),
                              !.supported = @ /\ \A i \in DOMAIN cols :
                                                    cols[i].type_oid \in SupportedTypes]
            ELSE scan
    IN [counted EXCEPT !.ended = @ \/ result = "None"]

\* a faulty iter_scan: the cursor is advanced before the columns are mapped,
\* so a call that fails has advanced it too
IterScanAdvancesFirst(cols) ==
    IF src_idx >= Len(src_rows)
    THEN /\ call' = [Called("iter_scan", "None", "") EXCEPT !.cols = cols]
         /\ scan' = Observed(cols, "None")
         /\ UNCHANGED <<base_url, src_rows, src_idx>>
    ELSE LET mapped == MapColumns(src_rows[src_idx + 1], cols, <<>>)
             result == IF mapped.err.some THEN "Err" ELSE "Some"
         IN /\ src_idx' = src_idx + 1
            /\ call' = [Called("iter_scan", result,
                               IF mapped.err.some THEN mapped.err.v ELSE "")
                            EXCEPT !.cols = cols, !.row = mapped.row]
            /\ scan' = Observed(cols, result)
            /\ UNCHANGED <<base_url, src_rows>>

IterScan(cols) ==
    IF src_idx >= Len(src_rows)
    THEN /\ call' = [Called("iter_scan", "None", "") EXCEPT !.cols = cols]
         /\ scan' = Observed(cols, "None")
         /\ UNCHANGED <<base_url, src_rows, src_idx>>
    ELSE LET mapped == MapColumns(src_rows[src_idx + 1], cols, <<>>)
         IN IF mapped.err.some
            THEN /\ call' = [Called("iter_scan", "Err", mapped.err.v)
                                 EXCEPT !.cols = cols, !.row = mapped.row]
                 /\ scan' = Observed(cols, "Err")
                 /\ UNCHANGED <<base_url, src_rows, src_idx>>
            ELSE /\ src_idx' = src_idx + 1
                 /\ call' = [Called("iter_scan", "Some", "")
                                 EXCEPT !.cols = cols, !.row = mapped.row]
                 /\ scan' = Observed(cols, "Some")
                 /\ UNCHANGED <<base_url, src_rows>>

\* iter_scan as the lifecycle drives it, on the columns of a foreign table
iter_scan == \E cols \in TableColumns : IterScan(cols)

\* iter_scan on any column list
iter_scan_columns == \E cols \in ColumnLists : IterScan(cols)

(* -------------------------- re_scan and end_scan ----------------------- *)

\* a faulty re_scan: rewinds the cursor and reports success
re_scan_rewinds ==
    /\ src_idx' = 0
    /\ call' = Called("re_scan", "Ok", "")
    /\ UNCHANGED <<base_url, src_rows, scan>>

re_scan ==
    /\ call' = Called("re_scan", "Err", "re_scan on foreign table is not supported")
    /\ UNCHANGED <<base_url, src_rows, src_idx, scan>>

\* a faulty end_scan: rewinds the cursor and keeps the rows
end_scan_rewinds ==
    /\ src_idx' = 0
    /\ call' = Called("end_scan", "Ok", "")
    /\ scan' = [NoScan EXCEPT !.failed = scan.failed, !.ended = TRUE]
    /\ UNCHANGED <<base_url, src_rows>>

end_scan ==
    /\ src_rows' = <<>>
    /\ call' = Called("end_scan", "Ok", "")
    /\ scan' = [NoScan EXCEPT !.failed = scan.failed, !.ended = TRUE]
    /\ UNCHANGED <<base_url, src_idx>>

(* ----------------------------- the write path -------------------------- *)

\* a faulty begin_modify: accepts the modification
begin_modify_accepts ==
    /\ call' = Called("begin_modify", "Ok", "")
    /\ UNCHANGED <<base_url, src_rows, src_idx, scan>>

begin_modify ==
    /\ call' = Called("begin_modify", "Err", "modify on foreign table is not supported")
    /\ UNCHANGED <<base_url, src_rows, src_idx, scan>>

insert ==
    /\ call' = Called("insert", "Ok", "")
    /\ UNCHANGED <<base_url, src_rows, src_idx, scan>>

update ==
    /\ call' = Called("update", "Ok", "")
    /\ UNCHANGED <<base_url, src_rows, src_idx, scan>>

delete ==
    /\ call' = Called("delete", "Ok", "")
    /\ UNCHANGED <<base_url, src_rows, src_idx, scan>>

end_modify ==
    /\ call' = Called("end_modify", "Ok", "")
    /\ UNCHANGED <<base_url, src_rows, src_idx, scan>>

(* --------------------------- the specification ------------------------- *)

\* the host creates the instance with init before any other call
Init ==
    \E opts \in ServerOptions :
        /\ base_url = InitBaseUrl(opts)
        /\ src_rows = init_instance.src_rows
        /\ src_idx = init_instance.src_idx
        /\ call = Called("init", "Ok", "")
        /\ scan = NoScan

Next ==
    \/ init
    \/ begin_scan
    \/ iter_scan
    \/ re_scan
    \/ end_scan
    \/ begin_modify
    \/ insert
    \/ update
    \/ delete
    \/ end_modify

Spec == Init /\ [][Next]_vars

(* ------------------- the specification of the cell mapping ------------- *)

DefaultBaseUrl == InitBaseUrl([o \in {} |-> ""])

\* the instance after init and a first begin_scan that fetched any of the
\* well-formed row arrays
InitCells ==
    \E rows \in RowSets :
        /\ base_url = DefaultBaseUrl
        /\ src_rows = rows
        /\ src_idx = init_instance.src_idx
        /\ call = BegunScan("Ok", "",
                            [auth |-> "token", exchanges |-> 1,
                             stages |-> << "auth", "options", "fetch", "parse" >>,
                             opts |-> Some([spread_sheet_id |-> "abc123"]),
                             url |-> RequestUrl(DefaultBaseUrl, "abc123", None),
                             script |-> << Status(200) >>, requests |-> 1,
                             body |-> Some(Sentinel \o << Doc(Table(JArr(rows))) >>)])
        /\ scan = Begun(rows)

NextCells == iter_scan_columns

SpecCells == InitCells /\ [][NextCells]_vars

(* --------------------- the specification of the fetch ------------------ *)

NextFetch == begin_scan_retrying

SpecFetch == Init /\ [][NextFetch]_vars

(* ======================================================================= *)
(*                              the properties                             *)
(* ======================================================================= *)

(* ------------------- the scan lifecycle, checked under Spec ------------ *)

IsBegun == call.op = "begin_scan" /\ call.result = "Ok"

\* C1: after a successful begin_scan that fetched N rows, with columns of
\* supported types, exactly N iter_scan calls return a row before the first
\* one that returns "no more rows"; that call pushes no cell and leaves the
\* cursor where it was.
C1_ExactlyFetchedRowsThenNone ==
    (scan.active /\ scan.supported /\ call.op = "iter_scan" /\ call.result = "None")
        => /\ scan.returned = scan.fetched
           /\ call.row = <<>>
           /\ src_idx = call.idx0

\* C2: a begin_scan that succeeds starts the new scan at index 0, whatever
\* the scan before it did: the cursor is 0 after it, and the first row the
\* new scan returns is row 0 of the new row set.
C2_BeginScanStartsAtRowZero ==
    /\ IsBegun => src_idx = 0
    /\ (scan.active /\ call.op = "iter_scan" /\ call.result = "Some" /\ scan.returned = 1)
           => call.idx0 = 0

\* C6: every re_scan call returns an error and leaves base_url, the row set
\* and the cursor as they were.
C6_ReScanFailsAndKeepsState ==
    [][call'.op = "re_scan"
          => /\ call'.result = "Err"
             /\ UNCHANGED <<base_url, src_rows, src_idx>>]_vars

\* a re_scan in the middle of a scan: one of two rows returned
C6_Witness ==
    /\ call.op = "re_scan" /\ call.result = "Err"
    /\ scan.active /\ scan.returned = 1 /\ Len(src_rows) = 2 /\ src_idx = 1

\* the body begins with the five characters of the sentinel
HasSentinel(body) ==
    /\ Len(body) >= 5
    /\ body[1] = Ch(")") /\ body[2] = Ch("]") /\ body[3] = Ch("}")
    /\ body[4] = Ch("'") /\ body[5] = Ch("\n")

\* C7: a begin_scan whose response body does not begin with the sentinel
\* fails with the unexpected-format error and stores no rows, also when the
\* body is valid JSON with table.rows.
C7_NoSentinelIsInvalidResponse ==
    [][(call'.op = "begin_scan" /\ call'.body.some /\ ~HasSentinel(call'.body.v))
          => /\ call'.result = "Err"
             /\ call'.err = "invalid response"
             /\ src_rows' = src_rows]_vars

\* the body is the JSON document alone, with a row in table.rows, and the
\* rows of the scan before are still the stored ones
C7_Witness ==
    /\ call.op = "begin_scan" /\ call.result = "Err"
    /\ call.body = Some(<< Doc(Table(JArr(<< RowNumStr >>))) >>)
    /\ src_rows = << RowShort >>

BuiltUrl == call.op = "begin_scan" /\ call.opts.some /\ "spread_sheet_id" \in DOMAIN call.opts.v

C10_WritePathIsInert ==
    [][/\ call'.op = "begin_modify" => call'.result = "Err"
       /\ call'.op \in {"insert", "update", "delete", "end_modify"} => call'.result = "Ok"
       /\ call'.op \in {"begin_modify", "insert", "update", "delete", "end_modify"}
              => UNCHANGED <<base_url, src_rows, src_idx>>]_vars

\* a begin_modify in the middle of a scan
C10_Witness ==
    /\ call.op = "begin_modify" /\ call.result = "Err"
    /\ scan.active /\ Len(src_rows) = 2 /\ src_idx = 1

(* ------------------ the cell mapping, checked under SpecCells ---------- *)

\* the cells of a source row, and the row iter_scan just worked on
Cells(src_row) == src_row.o.c.a
Mapped == call.op = "iter_scan" /\ call.idx0 < Len(src_rows)
MappedCells == Cells(src_rows[call.idx0 + 1])

\* the row has no value at position k (1-based): it is shorter, has a null
\* for the cell, or a cell whose value field is missing or null
NoValueAt(cells, k) ==
    \/ k > Len(cells)
    \/ cells[k].t = "null"
    \/ /\ cells[k].t = "object"
       /\ \/ "v" \notin DOMAIN cells[k].o
          \/ cells[k].o.v.t = "null"

ValueAt(cells, k) == cells[k].o.v

\* the value at the column's position is there and is not of the column's type
Mismatch(col, cells) ==
    /\ ~NoValueAt(cells, col.num)
    /\ \/ col.type_oid = "I64" /\ ValueAt(cells, col.num).t # "number"
       \/ col.type_oid = "String" /\ ValueAt(cells, col.num).t # "string"

\* the call failed at column i: the cells before it were pushed and no more
FailedAt(i) == call.result = "Err" /\ Len(call.row) = i - 1

C4_UnsupportedTypeFailsFirstRow ==
    (Mapped /\ call.idx0 = 0
        /\ \E i \in DOMAIN call.cols : call.cols[i].type_oid \notin {"I64", "String"})
        => call.result = "Err"

\* C5: an integer or string column whose position holds no value in the
\* source row gets an absent cell, and does not fail the call.
C5_NoValueIsAbsentCell ==
    Mapped
        => \A i \in DOMAIN call.cols :
              (call.cols[i].type_oid \in {"I64", "String"}
                   /\ NoValueAt(MappedCells, call.cols[i].num))
                  => /\ ~FailedAt(i)
                     /\ i <= Len(call.row) => call.row[i] = None

\* a row returned with a null value under one column and no cell under the
\* other
C5_Witness ==
    /\ Mapped /\ call.result = "Some"
    /\ MappedCells = Cells(RowNumStr)
    /\ call.cols = << [num |-> 3, type_oid |-> "I64"] >>
    /\ call.row = << None >>

\* the integer i is the number of tenths cut off toward zero
IsTruncationOf(i, tenths) ==
    IF tenths >= 0 THEN 10 * i <= tenths /\ tenths < 10 * i + 10
    ELSE 10 * i >= tenths /\ tenths > 10 * i - 10

\* C9: a number under an integer column gives the integer cell of its
\* integer part, and a string under a string column gives the string cell
\* of the same string.
C9_NumberAndStringCells ==
    Mapped
        => \A i \in 1 .. Len(call.row) :
              LET col == call.cols[i]
              IN ~NoValueAt(MappedCells, col.num)
                     => LET src == ValueAt(MappedCells, col.num)
                        IN /\ (col.type_oid = "I64" /\ src.t = "number")
                                 => /\ call.row[i].some
                                    /\ call.row[i].v.t = "I64"
                                    /\ IsTruncationOf(call.row[i].v.i, src.n)
                           /\ (col.type_oid = "String" /\ src.t = "string")
                                 => call.row[i] = Some([t |-> "String", s |-> src.s])

\* the example row: 1.0 becomes 1 and the name stays as it is
C9_Witness ==
    /\ Mapped /\ call.result = "Some"
    /\ MappedCells = Cells(RowNumStr)
    /\ call.cols = << [num |-> 1, type_oid |-> "I64"], [num |-> 2, type_oid |-> "String"] >>
    /\ call.row = << Some([t |-> "I64", i |-> 1]),
                     Some([t |-> "String", s |-> "Erlich Bachman"]) >>

\* a negative number with a fraction: -1.5 becomes -1
C9_WitnessNegative ==
    /\ Mapped /\ call.result = "Some"
    /\ MappedCells = Cells(RowNegBool)
    /\ call.cols = << [num |-> 1, type_oid |-> "I64"] >>
    /\ call.row = << Some([t |-> "I64", i |-> -1]) >>

(* ------------------- the begin_scan and its failures ------------------- *)

\* the body decoded after the sentinel, where begin_scan got that far
DecodedBody ==
    from_str(strip_prefix(call.body.v, Sentinel).v)

\* begin_scan got a body that has the sentinel and decodes, and the decoded
\* document has no array at /table/rows (nothing there, or something else)
NoRowArray ==
    /\ call.op = "begin_scan" /\ call.body.some
    /\ HasSentinel(call.body.v)
    /\ DecodedBody.ok
    /\ LET rows == pointer(DecodedBody.v, << Key("table"), Key("rows") >>)
       IN ~rows.some \/ rows.v.t # "array"

\* C11: when the decoded response has no array at table.rows (missing or not
\* an array), begin_scan returns the missing-rows error, does not crash, and
\* stores no rows.
C11_MissingRowsIsError ==
    [][ NoRowArray'
           => /\ call'.result = "Err"
              /\ call'.err = "cannot get rows from response"
              /\ src_rows' = src_rows ]_vars

\* C12: once a begin_scan has failed, every later iterate returns "no more
\* rows" until a begin_scan succeeds, whatever came before the failure.
C12_FailedBeginScanMeansNoRows ==
    (scan.failed /\ call.op = "iter_scan") => call.result = "None"

\* C13: in every reachable state the cursor is at most the length of the
\* stored row set.
C13_CursorWithinRows == src_idx <= Len(src_rows)

\* C14: the cursor never goes down within a scan: an iterate that returns a
\* row raises it by exactly one, an iterate that returns no row or an error
\* and a re_scan leave it, and nothing but the beginning of a new scan
\* (init, begin_scan) can lower it.
C14_CursorMonotone ==
    [][ /\ (call'.op = "iter_scan" /\ call'.result = "Some") => src_idx' = src_idx + 1
        /\ (call'.op = "iter_scan" /\ call'.result \in {"None", "Err"}) => src_idx' = src_idx
        /\ call'.op = "re_scan" => src_idx' = src_idx
        /\ src_idx' < src_idx => call'.op \in {"init", "begin_scan"} ]_vars

\* the second row of a scan has been returned, and an iterate has failed
\* or found no row with the cursor past zero
C14_Witness ==
    /\ call.op = "iter_scan" /\ call.result = "Some"
    /\ call.idx0 = 1 /\ src_idx = 2

C14_WitnessFailed ==
    /\ call.op = "iter_scan" /\ call.result = "Err"
    /\ call.idx0 = src_idx /\ src_idx < Len(src_rows)

\* C15: an iterate that returns a row has pushed exactly one cell for every
\* target column, in the order of the columns: the cell of column i is the
\* absent cell when the row has no value there and a cell of the column's
\* kind otherwise.
C15_OneCellPerColumn ==
    (Mapped /\ call.result = "Some")
        => /\ Len(call.row) = Len(call.cols)
           /\ \A i \in 1 .. Len(call.cols) :
                 LET col == call.cols[i]
                 IN IF NoValueAt(MappedCells, col.num)
                    THEN call.row[i] = None
                    ELSE call.row[i].some => call.row[i].v.t = col.type_oid

\* a row of two cells, the second of them for a column past the row's end
C15_Witness ==
    /\ Mapped /\ call.result = "Some"
    /\ MappedCells = Cells(RowShort)
    /\ call.cols = << [num |-> 1, type_oid |-> "I64"], [num |-> 3, type_oid |-> "String"] >>
    /\ call.row = << Some([t |-> "I64", i |-> 2]), None >>

\* C16: an iterate that returns an error has pushed no cell and has left the
\* cursor where it was.
C16_ErrorPushesNothing ==
    (call.op = "iter_scan" /\ call.result = "Err")
        => /\ call.row = <<>>
           /\ src_idx = call.idx0

\* C17: end_scan always succeeds and leaves the row set empty; once the data
\* has ended (an iterate found no row, or end_scan ran) every iterate finds
\* no row until a begin_scan succeeds, a re_scan in between included.
C17_EndOfDataIsStable ==
    /\ call.op = "end_scan" => (call.result = "Ok" /\ src_rows = <<>>)
    /\ (scan.ended /\ call.op = "iter_scan")
           => (call.result = "None" /\ call.row = <<>>)
    /\ (scan.ended /\ call.op = "re_scan") => call.result = "Err"

\* an iterate after end_scan, with the cursor of the ended scan still there
C17_Witness ==
    /\ scan.ended /\ ~scan.active
    /\ call.op = "iter_scan" /\ call.result = "None"
    /\ src_idx > 0 /\ src_rows = <<>>

\* the stages of a begin_scan in the order of the code
StageOrder == << "auth", "options", "fetch", "parse" >>

AuthFailures == {"malformed key", "exchange failed", "no token"}

\* C18: begin_scan authenticates, then fetches, then parses; it sends no
\* request unless the exchange gave a token; a malformed key, a failed
\* exchange and an answer without a token each fail it at once, with no
\* request and no second exchange; and the error for the answer without a
\* token is not the error of a failed exchange.
C18_AuthBeforeFetch ==
    call.op = "begin_scan"
        => /\ call.stages = SubSeq(StageOrder, 1, Len(call.stages))
           /\ call.requests > 0 => call.auth = "token"
           /\ call.auth \in AuthFailures
                 => /\ call.result = "Err"
                    /\ call.stages = << "auth" >>
                    /\ call.requests = 0
                    /\ call.exchanges <= 1
           /\ call.auth = "no token" => call.err = "no token found in access token"
           /\ call.auth = "exchange failed" => call.err # "no token found in access token"

\* the exchange answered without a token
C18_Witness ==
    /\ call.op = "begin_scan" /\ call.auth = "no token"
    /\ call.result = "Err" /\ call.requests = 0

C18_WitnessFetched ==
    /\ call.op = "begin_scan" /\ call.auth = "token"
    /\ call.requests > 0 /\ call.stages = StageOrder

\* what the server did to request i of a call
OutcomeAt(c, i) ==
    c.script[IF i <= Len(c.script) THEN i ELSE Len(c.script)]

\* a failure that a retry may follow: no response, a server error, a
\* request timeout or too many requests
RetriableFailure(outcome) ==
    \/ outcome.kind = "transport"
    \/ outcome.kind = "status" /\ (outcome.status >= 500 \/ outcome.status \in {408, 429})

FinalFailure(outcome) ==
    \/ outcome.kind = "transport"
    \/ outcome.kind = "status" /\ outcome.status \notin 200 .. 299

\* C19: the fetch ends after at most 3 retries; every request but the last
\* was answered with a transient failure; a 4xx that is not transient is
\* never followed by another request; and when the last request ends with a
\* network failure or a status outside 2xx, begin_scan fails and stores no
\* rows.
C19_BoundedRetries ==
    [][ (call'.op = "begin_scan" /\ call'.requests > 0)
           => /\ call'.requests <= 1 + 3
              /\ \A i \in 1 .. call'.requests - 1 : RetriableFailure(OutcomeAt(call', i))
              /\ \A i \in 1 .. call'.requests :
                    (/\ OutcomeAt(call', i).kind = "status"
                     /\ OutcomeAt(call', i).status \in 400 .. 499
                     /\ ~RetriableFailure(OutcomeAt(call', i)))
                        => i = call'.requests
              /\ FinalFailure(OutcomeAt(call', call'.requests))
                    => (call'.result = "Err" /\ src_rows' = src_rows) ]_vars

\* three retries and then an answer
C19_Witness ==
    /\ call.op = "begin_scan" /\ call.requests = 4 /\ call.result = "Ok"

\* three retries and still failing, and a 404 at the first request
C19_WitnessGivesUp ==
    /\ call.op = "begin_scan" /\ call.requests = 4 /\ call.result = "Err"
    /\ Len(call.script) > 4

C19_WitnessNotRetried ==
    /\ call.op = "begin_scan" /\ call.requests = 1 /\ call.result = "Err"
    /\ call.script = << Status(404) >>

\* C20: a begin_scan that returns an error leaves the base URL, the row set
\* and the cursor as they were; only a begin_scan that succeeds puts rows
\* into the row set.
C20_FailedBeginScanKeepsState ==
    [][ /\ (call'.op = "begin_scan" /\ call'.result = "Err")
              => UNCHANGED <<base_url, src_rows, src_idx>>
        /\ (src_rows' # src_rows /\ src_rows' # <<>>)
              => (call'.op = "begin_scan" /\ call'.result = "Ok") ]_vars

\* a begin_scan failed at the parse with rows of the scan before in place
C20_Witness ==
    /\ call.op = "begin_scan" /\ call.result = "Err"
    /\ call.stages = StageOrder
    /\ src_rows # <<>> /\ src_idx > 0

====
